---------------------------- MODULE Spec2Model ----------------------------
(***************************************************************************)
(* Multi-provider image generation with fallback, as implemented by        *)
(*   setup_stable_diffusion.py          (StableDiffusionImageGenerator)    *)
(*   stable_diffusion_image_generator.py (main)                            *)
(* One generate call walks an ordered list of model identifiers, invokes   *)
(* the transport for each, inspects the JSON body that comes back, and     *)
(* saves the first base64 payload it manages to decode and write.          *)
(* Further specifications cover save_image_from_base64 on its own, model   *)
(* discovery (claude_gateway.py, list_available_models), the gallery       *)
(* consumers that read the file names (image_gallery_server.py,            *)
(* image_viewer.py), and the /generate operation of the gallery server.    *)
(***************************************************************************)
EXTENDS Integers, Sequences, FiniteSets, TLC

(***************************************************************************)
(* Bounds of the model.                                                    *)
(***************************************************************************)
MaxProviders == 2
MaxClock == 1
MaxCalls == 2

(***************************************************************************)
(* JSON values as Python sees them after json.loads / response.json().     *)
(* Strings are sequences of tokens; a token stands for a run of            *)
(* characters that the code never looks inside.                            *)
(***************************************************************************)
JNull == [t |-> "null"]
JNum == [t |-> "num"]
JStr(s) == [t |-> "str", s |-> s]
JList(xs) == [t |-> "list", xs |-> xs]
JObj(f) == [t |-> "obj", f |-> f]
EmptyObj == JObj(<<>>)

HeaderTok == "data:image/png;base64"

\* bool(x) as used by `if result:`
Truthy(j) ==
  CASE j.t = "null" -> FALSE
    [] j.t = "num" -> TRUE
    [] j.t = "str" -> j.s # <<>>
    [] j.t = "list" -> j.xs # <<>>
    [] j.t = "obj" -> DOMAIN j.f # {}

\* `key in x` raises TypeError for None and for numbers
InRaises(j) == j.t \in {"null", "num"}

\* `key in x` where it does not raise: dict key lookup, list membership,
\* substring test on a string (the data-URL header contains "base64")
In(key, j) ==
  CASE j.t = "obj" -> key \in DOMAIN j.f
    [] j.t = "list" -> \E n \in 1..Len(j.xs) : j.xs[n] = JStr(<<key>>)
    [] j.t = "str" -> key = "base64" /\ \E n \in 1..Len(j.s) : j.s[n] = HeaderTok
    [] OTHER -> FALSE

\* enumerate(x) raises TypeError for None and for numbers
EnumerateRaises(j) == j.t \in {"null", "num"}

\* the elements enumerate(x) yields, in order
Enumerate(j) ==
  CASE j.t = "list" -> j.xs
    [] j.t = "str" -> [n \in 1..Len(j.s) |-> JStr(<<j.s[n]>>)]
    [] OTHER -> <<>>

\* x[key] raises unless x is a dict (a str indexed by a str is a TypeError)
SubscriptRaises(j, key) == j.t # "obj" \/ key \notin DOMAIN j.f

(***************************************************************************)
(* base64 text.  "aGk=" and "aGVsbG8=" are padded groups, "aGk" lacks its  *)
(* padding, "!" is a character outside the base64 alphabet.                *)
(***************************************************************************)
Padded == {"aGk=", "aGVsbG8="}
Unpadded == {"aGk"}
BytesOf(tok) == IF tok = "aGk=" THEN <<"hi">> ELSE <<"hello">>

\* str.split(',') : the segments between "," tokens
RECURSIVE Split(_)
Split(s) ==
  IF \A n \in 1..Len(s) : s[n] # ","
    THEN <<s>>
    ELSE LET c == CHOOSE n \in 1..Len(s) :
                    s[n] = "," /\ \A m \in 1..(n-1) : s[m] # ","
         IN <<SubSeq(s, 1, c - 1)>> \o Split(SubSeq(s, c + 1, Len(s)))

DecodeError == [ok |-> FALSE, bytes |-> <<>>]

\* base64.b64decode(s) with validate=False: characters outside the
\* alphabet are discarded, parsing stops after a padded group, and data
\* left without its padding is binascii.Error (the letters and digits of
\* a data-URL header are such data)
RECURSIVE B64Decode(_)
B64Decode(s) ==
  IF s = <<>> THEN [ok |-> TRUE, bytes |-> <<>>]
  ELSE IF Head(s) \in Padded THEN [ok |-> TRUE, bytes |-> BytesOf(Head(s))]
  ELSE IF Head(s) \in Unpadded \cup {HeaderTok} THEN DecodeError
  ELSE B64Decode(Tail(s))

(***************************************************************************)
(* save_image_from_base64(base64_data, filename).  io is what the file     *)
(* system does: "ok", "open_fails" (open(filename,'wb') raises) or         *)
(* "write_fails" (the file was opened, hence truncated, and f.write        *)
(* raises).  Every exception is caught and turned into False.              *)
(***************************************************************************)
IoOutcomes == {"ok", "open_fails", "write_fails"}

\* the text handed to b64decode, or the exception raised before that
SaveInput(j) ==
  IF j.t # "str" THEN [ok |-> FALSE, s |-> <<>>]          \* AttributeError
  ELSE IF j.s # <<>> /\ Head(j.s) = HeaderTok
    THEN IF Len(Split(j.s)) >= 2
           THEN [ok |-> TRUE, s |-> Split(j.s)[2]]
           ELSE [ok |-> FALSE, s |-> <<>>]                 \* IndexError
  ELSE [ok |-> TRUE, s |-> j.s]

Decoded(j) ==
  IF SaveInput(j).ok THEN B64Decode(SaveInput(j).s) ELSE DecodeError

WriteFile(fs, name, data) ==
  [n \in (DOMAIN fs) \cup {name} |-> IF n = name THEN data ELSE fs[n]]

\* a save that reports True whatever happened
SaveReturns_Always(j, io) == TRUE

\* the value save_image_from_base64 returns
SaveReturns(j, io) == Decoded(j).ok /\ io = "ok"

\* a save that opens the file for writing before it decodes the text
FilesAfterSave_OpenFirst(fs, j, name, io) ==
  IF io = "open_fails" THEN fs
  ELSE IF ~Decoded(j).ok \/ io = "write_fails" THEN WriteFile(fs, name, <<>>)
  ELSE WriteFile(fs, name, Decoded(j).bytes)

\* the working directory after save_image_from_base64: b64decode runs
\* before open(filename, 'wb')
FilesAfterSave(fs, j, name, io) ==
  IF ~Decoded(j).ok \/ io = "open_fails" THEN fs
  ELSE IF io = "write_fails" THEN WriteFile(fs, name, <<>>)
  ELSE WriteFile(fs, name, Decoded(j).bytes)

(***************************************************************************)
(* Model identifiers and file names, as token sequences.                   *)
(***************************************************************************)
SD35 == <<"stabilityai", ".", "stable-diffusion-3-5-large">>
SDXLgw == <<"stabilityai", ".", "stable-diffusion-xl-v1">>
SDXL == <<"stability", ".", "stable-diffusion-xl-v1", ":", "0">>
Titan == <<"amazon", ".", "titan-image-generator-v1">>

\* models_to_try in setup_stable_diffusion.py, with the function of each
SetupModels == <<SD35, SDXL, Titan>>
FuncOf(model_id) == IF model_id = Titan THEN "generate_image_titan"
                    ELSE "generate_image_stability_ai"

\* model_ids_to_try in stable_diffusion_image_generator.py
GeneratorModels == <<SD35, SDXLgw, SDXL, Titan>>

\* str.replace(old, new)
Replace(s, old, new) == [n \in 1..Len(s) |-> IF s[n] = old THEN new ELSE s[n]]

\* datetime.now().strftime("%Y%m%d_%H%M%S"), the clock counting whole
\* seconds from 2025-01-01 12:00:00
Strftime(t) ==
  <<"20250101", "_", <<"120000", "120001", "120002", "120003">>[t + 1]>>

\* a file name that always ends in _0.png
IndexTok_Zero(i) == "0"

\* str(i) in the f-string
IndexTok(i) == <<"0", "1", "2", "3">>[i + 1]

\* a file name without the model id
SetupFilename_NoProvider(model_id, ts, i) ==
  <<"generated", "_", "image", "_">> \o ts \o <<"_", IndexTok(i), ".png">>

\* f"generated_image_{model_id.replace(':','_').replace('.','_')}_{timestamp}_{i}.png"
SetupFilename(model_id, ts, i) ==
  <<"generated", "_", "image", "_">>
    \o Replace(Replace(model_id, ":", "_"), ".", "_")
    \o <<"_">> \o ts \o <<"_", IndexTok(i), ".png">>

\* f"generated_image_{timestamp}_{i}.png"
GeneratorFilename(ts, i) ==
  <<"generated", "_", "image", "_">> \o ts \o <<"_", IndexTok(i), ".png">>

(***************************************************************************)
(* What the transport may answer.  The body of a successful answer is any  *)
(* JSON value; these are the shapes the code branches on.                  *)
(***************************************************************************)
Hi == JStr(<<"aGk=">>)
Hello == JStr(<<"aGVsbG8=">>)
HiUrl == JStr(<<HeaderTok, ",", "aGk=">>)
NoPadding == JStr(<<"aGk">>)

Bodies ==
  { EmptyObj,
    JObj("artifacts" :> JList(<<>>)),
    JObj("artifacts" :> JList(<<JObj("base64" :> Hi)>>)),
    JObj("artifacts" :> JList(<<EmptyObj, JObj("base64" :> Hello)>>)),
    JObj("artifacts" :> JList(<<JObj("base64" :> Hi), JObj("base64" :> Hello)>>)),
    JObj("artifacts" :> JList(<<JObj("base64" :> NoPadding), JNum>>)),
    JObj("artifacts" :> JNull),
    JObj("images" :> JList(<<HiUrl>>)),
    JObj("images" :> JList(<<NoPadding, Hello>>)),
    JObj("data" :> JList(<<JObj("b64_json" :> Hi)>>)),
    JObj("data" :> JList(<<EmptyObj, JObj("b64_json" :> NoPadding)>>)),
    JObj("data" :> JNum) }

\* the sub-lists of a list, order kept
RECURSIVE SubLists(_)
SubLists(l) ==
  IF l = <<>> THEN {<<>>}
  ELSE SubLists(Tail(l)) \cup {<<Head(l)>> \o x : x \in SubLists(Tail(l))}

\* the lists a call may be given: the shipped list of the script cut down
\* to at most MaxProviders of its entries
ProviderLists(prg) ==
  { l \in SubLists(IF prg = "setup" THEN SetupModels ELSE GeneratorModels) :
      Len(l) <= MaxProviders }

NoneRet == [t |-> "none", name |-> <<>>]
FileRet(name) == [t |-> "file", name |-> name]
Unset == [t |-> "unset", name |-> <<>>]
Line(kind, arg) == [e |-> kind, a |-> arg]

VARIABLES
  prog,           \* "setup": setup_stable_diffusion.py, "gen": stable_diffusion_image_generator.py
  models_to_try,  \* the ordered list the for loop walks
  clock,          \* wall clock, in whole seconds
  runs,           \* how many times the caller runs generate, one after the other
  files,          \* the working directory: file name -> bytes
  calls,          \* generate calls started so far
  pc,             \* where the running call is
  idx,            \* position of the for loop in models_to_try (1-based)
  path,           \* transport of the call in flight: "sdk", "gateway", "direct"
  timestamp,      \* the local variable timestamp
  result,         \* the local variable result
  key,            \* which list of result is being walked
  i,              \* enumerate index in that list
  success,        \* the local variable success of main
  ret,            \* what generate_image returned
  log,            \* lines printed by the running call
  invoked,        \* transport calls made by the running call, in order
  written,        \* saves of the running call that returned True
  returned,       \* what earlier calls returned and wrote
  started,        \* the clock when the running call was entered
  named,          \* file names computed for the response being walked, in order
  targets         \* file names the running call has handed to save_image_from_base64

VARIABLES
  base64_data,    \* save_image_from_base64 called on its own: its argument
  disk,           \* what the file system did in that call
  saved           \* what that call returned: "unset", "True" or "False"

saveVars == <<base64_data, disk, saved>>

VARIABLES
  script,         \* "claude_gateway": call_claude_model, "setup": list_available_models
  requested,      \* the model_id argument the caller supplied
  model_id,       \* the local variable model_id
  stage,          \* where the discovery call is
  catalog,        \* answers of the backend to the model listings made, in order
  found,          \* claude_models / the list list_available_models returned
  posted,         \* models to which a chat completion request was sent, in order
  response        \* what call_claude_model returned

catalogVars == <<script, requested, model_id, stage, catalog, found, posted, response>>

VARIABLES
  form,           \* two /generate requests side by side: the JSON body of each
  outcome,        \* what the operating system and the backends do with a launched generator
  cmd,            \* the command each request launched, if any
  attempted,      \* the provider list the generator launched by each request walks
  reply           \* the JSON result of each request

galleryVars == <<form, outcome, cmd, attempted, reply>>

vars == <<prog, models_to_try, runs, clock, files, calls, pc, idx, path, timestamp,
          result, key, i, success, ret, log, invoked, written, returned,
          started, named, targets, saveVars, catalogVars, galleryVars>>

Start ==
  /\ prog \in {"setup", "gen"}
  /\ models_to_try \in ProviderLists(prog)
  /\ clock = 0
  /\ files = <<>>
  /\ calls = 0
  /\ pc = "idle"
  /\ idx = 1
  /\ path = "sdk"
  /\ timestamp = <<>>
  /\ result = JNull
  /\ key = "artifacts"
  /\ i = 0
  /\ success = FALSE
  /\ ret = Unset
  /\ log = <<>>
  /\ invoked = <<>>
  /\ written = <<>>
  /\ returned = <<>>
  /\ started = 0
  /\ named = <<>>
  /\ targets = {}

NoModel == "None"

\* save_image_from_base64 is not called on its own
SaveIdle ==
  /\ base64_data = <<>>
  /\ disk = "ok"
  /\ saved = "unset"

\* no model discovery is run
CatalogIdle ==
  /\ script = "claude_gateway"
  /\ requested = NoModel
  /\ model_id = NoModel
  /\ stage = "idle"
  /\ catalog = <<>>
  /\ found = <<>>
  /\ posted = <<>>
  /\ response = Unset

Absent == [t |-> "absent"]
NotRun == <<>>

\* the gallery server handles no /generate request
GalleryIdle ==
  /\ form = [tw \in 1..2 |-> [prompt |-> Absent, model |-> Absent]]
  /\ outcome = "failed"
  /\ cmd = [tw \in 1..2 |-> NotRun]
  /\ attempted = [tw \in 1..2 |-> <<>>]
  /\ reply = [tw \in 1..2 |-> Unset]

\* no generate call is made
FallbackIdle == Start /\ prog = "setup" /\ models_to_try = <<>> /\ runs = 0

\* one generate call
Init == Start /\ runs = 1 /\ SaveIdle /\ CatalogIdle /\ GalleryIdle

\* MaxCalls generate calls in a row, same request, same list
InitSequential ==
  Start /\ runs = MaxCalls /\ Len(models_to_try) <= 1 /\ SaveIdle /\ CatalogIdle
    /\ GalleryIdle

\* time passes
Tick ==
  /\ clock < MaxClock
  /\ clock' = clock + 1
  /\ UNCHANGED <<saveVars, catalogVars, galleryVars>>
  /\ UNCHANGED <<prog, models_to_try, runs, files, calls, pc, idx, path, timestamp,
                 result, key, i, success, ret, log, invoked, written, returned,
                 started, named, targets>>

\* generator.generate_image(prompt) / main() is entered
Call ==
  /\ pc \in {"idle", "done", "raised"}
  /\ calls < runs
  /\ calls' = calls + 1
  /\ returned' = IF pc = "idle" THEN returned
                 ELSE Append(returned, [ret |-> ret, success |-> success,
                                        written |-> written, raised |-> pc = "raised"])
  /\ timestamp' = IF prog = "setup" THEN Strftime(clock) ELSE <<>>
  /\ pc' = "for"
  /\ idx' = 1
  /\ path' = "sdk"
  /\ result' = JNull
  /\ key' = "artifacts"
  /\ i' = 0
  /\ success' = FALSE
  /\ ret' = Unset
  /\ log' = <<>>
  /\ invoked' = <<>>
  /\ written' = <<>>
  /\ started' = clock
  /\ named' = <<>>
  /\ targets' = {}
  /\ UNCHANGED <<saveVars, catalogVars, galleryVars>>
  /\ UNCHANGED <<prog, models_to_try, runs, clock, files>>

\* a loop that walks the list from its far end
ModelAt_Reversed(k) == models_to_try[Len(models_to_try) + 1 - k]

\* the model the for loop hands out in its k-th turn
ModelAt(k) == models_to_try[k]

\* the for loop has handed out every entry
Exhausted(k) == k > Len(models_to_try)

(***************************************************************************)
(* The transport.  A call in flight ends with an exception (network,       *)
(* auth, timeout, a body that is not JSON), with a status other than 200   *)
(* (gateway only), or with a JSON body.                                    *)
(***************************************************************************)
Answers(p) ==
  {[kind |-> "raises", body |-> JNull]}
    \cup (IF p = "gateway" THEN {[kind |-> "status", body |-> JNull]} ELSE {})
    \cup {[kind |-> "body", body |-> b] : b \in Bodies}

\* generate_image_stability_ai, generate_image_titan,
\* generate_image_via_gateway, generate_image_direct_bedrock: the body, or
\* None after printing the error
Returned(a) == IF a.kind = "body" THEN a.body ELSE JNull

Printed(a, p, id) ==
  IF a.kind = "body" THEN <<>>
  ELSE IF a.kind = "status" THEN <<Line("status_error", <<>>)>>
  ELSE IF p = "gateway" THEN <<Line("gateway_error", <<>>)>>
  ELSE IF p = "direct" THEN <<Line("direct_error", <<>>)>>
  ELSE <<Line("transport_error", <<FuncOf(id)>>)>>

\* a transport call that is left running while the loop goes on
Answered_Lost(a) == invoked

\* the transport call in flight has ended with answer a
Answered(a) == [invoked EXCEPT ![Len(invoked)].got = a.kind]

(***************************************************************************)
(* StableDiffusionImageGenerator.generate_image                            *)
(***************************************************************************)
\* a file name computed in the payload loop: the timestamp and the
\* enumerate index it embeds, the transport call whose response is being
\* walked, and whether the name was handed to save_image_from_base64
Named(filename, ts, k, saving) ==
  [name |-> filename, ts |-> ts, i |-> k, at |-> Len(invoked), saving |-> saving]

\* a loop that takes the failed model once more
NextModel_Retry ==
  /\ pc' = "for"
  /\ idx' = idx
  /\ result' = JNull
  /\ key' = "artifacts"
  /\ i' = 0
  /\ named' = <<>>

\* the body of the for loop is left without a saved image: the loop moves
\* on, and result, key and i hold nothing that is read again
NextModel ==
  /\ pc' = "for"
  /\ idx' = idx + 1
  /\ result' = JNull
  /\ key' = "artifacts"
  /\ i' = 0
  /\ named' = <<>>

\* for model_id, generate_func in models_to_try: generate_func(prompt, model_id)
\* is entered and its invoke_model call is in flight
SetupAttempt ==
  /\ prog = "setup"
  /\ pc = "for"
  /\ ~Exhausted(idx)
  /\ log' = log \o <<Line("attempting", ModelAt(idx)),
                      Line("generating", ModelAt(idx))>>
  /\ invoked' = Append(invoked, [model |-> ModelAt(idx), path |-> "sdk",
                                 got |-> "inflight"])
  /\ path' = "sdk"
  /\ pc' = "waiting"
  /\ UNCHANGED <<saveVars, catalogVars, galleryVars>>
  /\ UNCHANGED <<prog, models_to_try, runs, clock, files, calls, idx, timestamp,
                 result, key, i, success, ret, written, returned,
                 started, named, targets>>

\* a `return filename` after the loop, where filename was never bound
SetupGivesUp_Unbound ==
  IF written = <<>> THEN [pc |-> "raised", ret |-> Unset]
  ELSE [pc |-> "done", ret |-> FileRet(written[1].name)]

\* return None
SetupGivesUp == [pc |-> "done", ret |-> NoneRet]

\* the loop is over
SetupExhausted ==
  /\ prog = "setup"
  /\ pc = "for"
  /\ Exhausted(idx)
  /\ ret' = SetupGivesUp.ret
  /\ pc' = SetupGivesUp.pc
  /\ UNCHANGED <<saveVars, catalogVars, galleryVars>>
  /\ UNCHANGED <<prog, models_to_try, runs, clock, files, calls, idx, path, timestamp,
                 result, key, i, success, log, invoked, written, returned,
                 started, named, targets>>

\* which branch `if result:` / `if 'artifacts' in result` / `elif 'images'`
\* takes: "next" (fall out to the next model), "raise", or the key to walk
SetupBranch(r) ==
  IF ~Truthy(r) THEN "next"
  ELSE IF InRaises(r) THEN "raise"
  ELSE IF In("artifacts", r)
    THEN IF SubscriptRaises(r, "artifacts") \/ EnumerateRaises(r.f["artifacts"])
           THEN "raise" ELSE "artifacts"
  ELSE IF In("images", r)
    THEN IF SubscriptRaises(r, "images") \/ EnumerateRaises(r.f["images"])
           THEN "raise" ELSE "images"
  ELSE "next"

\* result = generate_func(prompt, model_id) returns, and the if-chain on
\* result runs up to the inner for loop
SetupResult ==
  /\ prog = "setup"
  /\ pc = "waiting"
  /\ \E a \in Answers(path) :
       /\ log' = log \o Printed(a, path, ModelAt(idx))
       /\ invoked' = Answered(a)
       /\ LET b == SetupBranch(Returned(a)) IN
            CASE b = "next" -> NextModel
              [] b = "raise" -> /\ pc' = "raised"
                                /\ result' = Returned(a)
                                /\ UNCHANGED <<idx, key, i, named>>
              [] OTHER -> /\ pc' = "loop"
                          /\ result' = Returned(a)
                          /\ key' = b
                          /\ i' = 0
                          /\ UNCHANGED <<idx, named>>
  /\ UNCHANGED <<saveVars, catalogVars, galleryVars>>
  /\ UNCHANGED <<prog, models_to_try, runs, clock, files, calls, path, timestamp,
                 success, ret, written, returned, started, targets>>

\* if self.save_image_from_base64(...): return filename
SetupSaved(filename) == [pc |-> "done", ret |-> FileRet(filename)]

\* what one turn of the inner for loop does with element el:
\* "skip" (no base64 field), "raise", or "save" with the value to save
SetupElement(k, el) ==
  IF k = "images" THEN [do |-> "save", v |-> el]
  ELSE IF InRaises(el) THEN [do |-> "raise", v |-> JNull]
  ELSE IF ~In("base64", el) THEN [do |-> "skip", v |-> JNull]
  ELSE IF SubscriptRaises(el, "base64") THEN [do |-> "raise", v |-> JNull]
  ELSE [do |-> "save", v |-> el.f["base64"]]

SetupLoop ==
  /\ prog = "setup"
  /\ pc = "loop"
  /\ LET items == Enumerate(result.f[key]) IN
       IF i >= Len(items)
         THEN NextModel /\ UNCHANGED <<files, ret, log, written, targets>>
         ELSE LET el == SetupElement(key, items[i + 1])
                  filename == SetupFilename(ModelAt(idx), timestamp, i)
              IN /\ UNCHANGED <<idx, result, key>>
                 /\ named' = IF el.do = "save"
                               THEN Append(named, Named(filename, timestamp, i, TRUE))
                               ELSE named
                 /\ targets' = IF el.do = "save" THEN targets \cup {filename}
                                 ELSE targets
                 /\ CASE el.do = "raise" ->
                           /\ pc' = "raised"
                           /\ UNCHANGED <<files, i, ret, log, written>>
                      [] el.do = "skip" ->
                           /\ i' = i + 1
                           /\ UNCHANGED <<files, pc, ret, log, written>>
                      [] OTHER ->
                           \E io \in IoOutcomes :
                             /\ files' = FilesAfterSave(files, el.v, filename, io)
                             /\ IF SaveReturns(el.v, io)
                                  THEN /\ log' = Append(log, Line("saved", filename))
                                       /\ written' = Append(written,
                                            [name |-> filename,
                                             data |-> Decoded(el.v).bytes,
                                             model |-> ModelAt(idx),
                                             at |-> Len(invoked)])
                                       /\ ret' = SetupSaved(filename).ret
                                       /\ pc' = SetupSaved(filename).pc
                                       /\ UNCHANGED i
                                  ELSE /\ log' = Append(log, Line("save_error", <<>>))
                                       /\ i' = i + 1
                                       /\ UNCHANGED <<pc, ret, written>>
  /\ UNCHANGED <<saveVars, catalogVars, galleryVars>>
  /\ UNCHANGED <<prog, models_to_try, runs, clock, calls, path, timestamp,
                 success, invoked, returned, started>>

(***************************************************************************)
(* stable_diffusion_image_generator.main                                   *)
(***************************************************************************)
\* for model_id in model_ids_to_try: generate_image_via_gateway(prompt, model_id)
\* is entered and its requests.post is in flight
GenTry ==
  /\ prog = "gen"
  /\ pc = "for"
  /\ ~Exhausted(idx)
  /\ log' = log \o <<Line("trying", ModelAt(idx)),
                      Line("gateway_attempt", ModelAt(idx))>>
  /\ invoked' = Append(invoked, [model |-> ModelAt(idx), path |-> "gateway",
                                 got |-> "inflight"])
  /\ path' = "gateway"
  /\ pc' = "waiting"
  /\ UNCHANGED <<saveVars, catalogVars, galleryVars>>
  /\ UNCHANGED <<prog, models_to_try, runs, clock, files, calls, idx, timestamp,
                 result, key, i, success, ret, written, returned,
                 started, named, targets>>

\* the loop is over with success still False: the failure text is printed
GenExhausted ==
  /\ prog = "gen"
  /\ pc = "for"
  /\ Exhausted(idx)
  /\ log' = Append(log, Line("failed", <<>>))
  /\ ret' = NoneRet
  /\ pc' = "done"
  /\ UNCHANGED <<saveVars, catalogVars, galleryVars>>
  /\ UNCHANGED <<prog, models_to_try, runs, clock, files, calls, idx, path, timestamp,
                 result, key, i, success, invoked, written, returned,
                 started, named, targets>>

\* `if result and '<k>' in result:` then `for ... in enumerate(result['<k>'])`
GenBranch(r, k) ==
  IF ~Truthy(r) THEN "next"
  ELSE IF InRaises(r) THEN "raise"
  ELSE IF In(k, r)
    THEN IF SubscriptRaises(r, k) \/ EnumerateRaises(r.f[k]) THEN "raise" ELSE k
  ELSE "next"

\* print("Gateway failed, ..."); generate_image_direct_bedrock(prompt, model_id)
\* is entered and its invoke_model call is in flight
GoDirect(lg, inv) ==
  /\ log' = lg \o <<Line("gateway_failed", <<>>),
                     Line("direct_attempt", ModelAt(idx))>>
  /\ invoked' = Append(inv, [model |-> ModelAt(idx), path |-> "direct",
                             got |-> "inflight"])
  /\ path' = "direct"
  /\ pc' = "waiting"
  /\ result' = JNull
  /\ key' = "artifacts"
  /\ i' = 0
  /\ named' = <<>>
  /\ UNCHANGED idx

\* result = generate_image_via_gateway(...) returns
GenGatewayResult ==
  /\ prog = "gen"
  /\ pc = "waiting"
  /\ path = "gateway"
  /\ \E a \in Answers(path) :
       LET b == GenBranch(Returned(a), "data")
           lg == log \o Printed(a, path, ModelAt(idx))
       IN CASE b = "next" -> GoDirect(lg, Answered(a))
            [] b = "raise" -> /\ pc' = "raised"
                              /\ result' = Returned(a)
                              /\ log' = lg
                              /\ invoked' = Answered(a)
                              /\ UNCHANGED <<idx, key, i, path, named>>
            [] OTHER -> /\ pc' = "loop"
                        /\ result' = Returned(a)
                        /\ key' = "data"
                        /\ i' = 0
                        /\ log' = lg
                        /\ invoked' = Answered(a)
                        /\ UNCHANGED <<idx, path, named>>
  /\ UNCHANGED <<saveVars, catalogVars, galleryVars>>
  /\ UNCHANGED <<prog, models_to_try, runs, clock, files, calls, timestamp,
                 success, ret, written, returned, started, targets>>

\* result = generate_image_direct_bedrock(...) returns
GenDirectResult ==
  /\ prog = "gen"
  /\ pc = "waiting"
  /\ path = "direct"
  /\ \E a \in Answers(path) :
       /\ log' = log \o Printed(a, path, ModelAt(idx))
       /\ invoked' = Answered(a)
       /\ LET b == GenBranch(Returned(a), "artifacts") IN
            CASE b = "next" -> NextModel
              [] b = "raise" -> /\ pc' = "raised"
                                /\ result' = Returned(a)
                                /\ UNCHANGED <<idx, key, i, named>>
              [] OTHER -> /\ pc' = "loop"
                          /\ result' = Returned(a)
                          /\ key' = "artifacts"
                          /\ i' = 0
                          /\ UNCHANGED <<idx, named>>
  /\ UNCHANGED <<saveVars, catalogVars, galleryVars>>
  /\ UNCHANGED <<prog, models_to_try, runs, clock, files, calls, path, timestamp,
                 success, ret, written, returned, started, targets>>

\* the `if success: break` after the inner loop left out
GenSaved_NoBreak == [pc |-> "for", idx |-> idx + 1, result |-> JNull]

\* success = True; break; and then `if success: break` leaves the outer loop
GenSaved == [pc |-> "done", idx |-> idx, result |-> result]

FieldOf(k) == IF k = "data" THEN "b64_json" ELSE "base64"

\* `if '<field>' in element:` and element['<field>']
GenElement(k, el) ==
  IF InRaises(el) THEN [do |-> "raise", v |-> JNull]
  ELSE IF ~In(FieldOf(k), el) THEN [do |-> "skip", v |-> JNull]
  ELSE IF SubscriptRaises(el, FieldOf(k)) THEN [do |-> "raise", v |-> JNull]
  ELSE [do |-> "save", v |-> el.f[FieldOf(k)]]

\* one turn of `for i, image_data in enumerate(result['data'])` or of
\* `for i, artifact in enumerate(result['artifacts'])`
GenLoop ==
  /\ prog = "gen"
  /\ pc = "loop"
  /\ LET items == Enumerate(result.f[key]) IN
       IF i >= Len(items)
         THEN /\ IF key = "data"
                   THEN GoDirect(log, invoked)
                   ELSE NextModel /\ UNCHANGED <<log, invoked, path>>
              /\ UNCHANGED <<files, success, ret, written, timestamp, targets>>
         ELSE LET el == GenElement(key, items[i + 1])
                  filename == GeneratorFilename(Strftime(clock), i)
              IN /\ timestamp' = IF key = "data" \/ el.do = "save"
                                   THEN Strftime(clock) ELSE timestamp
                 /\ named' = IF key = "data" \/ el.do = "save"
                               THEN Append(named, Named(filename, Strftime(clock), i,
                                                        el.do = "save"))
                               ELSE named
                 /\ targets' = IF el.do = "save" THEN targets \cup {filename}
                                 ELSE targets
                 /\ UNCHANGED <<key, invoked, path>>
                 /\ CASE el.do = "raise" ->
                           /\ pc' = "raised"
                           /\ UNCHANGED <<files, idx, result, i, success, ret, log, written>>
                      [] el.do = "skip" ->
                           /\ i' = i + 1
                           /\ UNCHANGED <<files, pc, idx, result, success, ret, log, written>>
                      [] OTHER ->
                           \E io \in IoOutcomes :
                             /\ files' = FilesAfterSave(files, el.v, filename, io)
                             /\ IF SaveReturns(el.v, io)
                                  THEN /\ log' = log \o <<Line("saved", filename),
                                                          Line("success", ModelAt(idx)),
                                                          Line("completed", <<>>)>>
                                       /\ written' = Append(written,
                                            [name |-> filename,
                                             data |-> Decoded(el.v).bytes,
                                             model |-> ModelAt(idx),
                                             at |-> Len(invoked)])
                                       /\ success' = TRUE
                                       /\ ret' = NoneRet
                                       /\ pc' = GenSaved.pc
                                       /\ idx' = GenSaved.idx
                                       /\ result' = GenSaved.result
                                       /\ UNCHANGED i
                                  ELSE /\ log' = Append(log, Line("save_error", <<>>))
                                       /\ i' = i + 1
                                       /\ UNCHANGED <<pc, idx, result, success, ret, written>>
  /\ UNCHANGED <<saveVars, catalogVars, galleryVars>>
  /\ UNCHANGED <<prog, models_to_try, runs, clock, calls, returned, started>>

Next ==
  \/ Tick
  \/ Call
  \/ SetupAttempt
  \/ SetupResult
  \/ SetupLoop
  \/ SetupExhausted
  \/ GenTry
  \/ GenGatewayResult
  \/ GenDirectResult
  \/ GenLoop
  \/ GenExhausted

Spec == Init /\ [][Next]_vars

SpecSequential == InitSequential /\ [][Next]_vars

\* a call that was entered keeps running: each statement is followed by
\* the next one, and a transport call in flight ends, with its answer or
\* with the exception of its timeout (timeout=60 of requests.post, the
\* connect and read timeouts of the botocore client)
Proceed ==
  \/ SetupAttempt
  \/ SetupResult
  \/ SetupLoop
  \/ SetupExhausted
  \/ GenTry
  \/ GenGatewayResult
  \/ GenDirectResult
  \/ GenLoop
  \/ GenExhausted

SpecProceeding == Init /\ [][Next]_vars /\ WF_vars(Proceed)

(***************************************************************************)
(* save_image_from_base64 called on its own, on any text of at most        *)
(* MaxText tokens: a data-URL header, commas, base64 groups with and       *)
(* without padding, characters outside the base64 alphabet.                *)
(***************************************************************************)
MaxText == 4

Alphabet == {HeaderTok, ",", "aGk=", "aGVsbG8=", "aGk", "!"}
Texts == UNION {[1..n -> Alphabet] : n \in 0..MaxText}

\* the filename argument
SaveName == GeneratorFilename(Strftime(0), 0)

InitSave ==
  /\ FallbackIdle
  /\ CatalogIdle
  /\ GalleryIdle
  /\ base64_data \in Texts
  /\ disk = "ok"
  /\ saved = "unset"

\* save_image_from_base64(base64_data, filename)
SaveImage ==
  /\ saved = "unset"
  /\ \E o \in IoOutcomes :
       /\ disk' = o
       /\ files' = FilesAfterSave(files, JStr(base64_data), SaveName, o)
       /\ saved' = IF SaveReturns(JStr(base64_data), o) THEN "True" ELSE "False"
  /\ UNCHANGED <<base64_data, catalogVars, galleryVars>>
  /\ UNCHANGED <<prog, models_to_try, runs, clock, calls, pc, idx, path, timestamp,
                 result, key, i, success, ret, log, invoked, written, returned,
                 started, named, targets>>

NextSave == SaveImage

SpecSave == InitSave /\ [][NextSave]_vars

\* the same call in a working directory that may hold a file of an
\* earlier run, at the path the call is given or at another one
OtherName == GeneratorFilename(Strftime(0), 1)
OldBytes == <<"old">>

\* an earlier run has left a file behind
EarlierRun ==
  /\ saved = "unset"
  /\ files = <<>>
  /\ \E name \in {SaveName, OtherName} : files' = WriteFile(files, name, OldBytes)
  /\ UNCHANGED <<saveVars, catalogVars, galleryVars>>
  /\ UNCHANGED <<prog, models_to_try, runs, clock, calls, pc, idx, path, timestamp,
                 result, key, i, success, ret, log, invoked, written, returned,
                 started, named, targets>>

NextSaveOver == EarlierRun \/ SaveImage

SpecSaveOver == InitSave /\ [][NextSaveOver]_vars

(***************************************************************************)
(* Model discovery: claude_gateway.call_claude_model with                  *)
(* get_available_models, and list_available_models of                     *)
(* setup_stable_diffusion.py.  The backend lists at most MaxListing        *)
(* models; identifiers are single tokens, some with upper-case letters.    *)
(***************************************************************************)
MaxListing == 2

BackendIds ==
  {"anthropic.claude-3-7-sonnet", "Anthropic.Claude-V2",
   "amazon.titan-image-generator-v1", "Stability.Stable-Diffusion-XL",
   "meta.llama3-70b"}

\* str.lower()
Lower(id) ==
  CASE id = "Anthropic.Claude-V2" -> "anthropic.claude-v2"
    [] id = "Stability.Stable-Diffusion-XL" -> "stability.stable-diffusion-xl"
    [] OTHER -> id

\* `kw in text`: substring test, case kept
Contains(kw, text) ==
  kw \in (CASE text \in {"anthropic.claude-3-7-sonnet", "anthropic.claude-v2"} -> {"claude"}
            [] text = "amazon.titan-image-generator-v1" -> {"titan", "image"}
            [] text = "stability.stable-diffusion-xl" -> {"stable", "diffusion"}
            [] OTHER -> {})

ImageKeywords == {"stable", "diffusion", "image", "titan"}

\* what the backend may answer to a model listing: an exception (network,
\* credentials, a body that is not JSON), a status other than 200
\* (gateway only), or the list of its models
ListingAnswers(sc) ==
  {[kind |-> "raises", data |-> <<>>]}
    \cup (IF sc = "claude_gateway" THEN {[kind |-> "status", data |-> <<>>]} ELSE {})
    \cup {[kind |-> "body", data |-> d] :
            d \in UNION {[1..n -> BackendIds] : n \in 0..MaxListing}}

\* get_available_models(): the ids of the listing, or [] after an error
GetAvailableModels(a) == IF a.kind = "body" THEN a.data ELSE <<>>

\* a discovery that returns every model listed
ClaudeModels_Unfiltered(models) == models

\* [model for model in models if "claude" in model.lower()]
ClaudeModels(models) ==
  LET claude(m) == Contains("claude", Lower(m)) IN SelectSeq(models, claude)

\* list_available_models(): the listed models whose lower-cased id holds
\* one of the keywords, or [] after an error
ImageModels(a) ==
  LET wanted(m) == \E kw \in ImageKeywords : Contains(kw, Lower(m))
  IN IF a.kind = "body" THEN SelectSeq(a.data, wanted) ELSE <<>>

\* a choice of the last discovered model
FirstOf_Last(claude_models) == claude_models[Len(claude_models)]

\* claude_models[0]
FirstOf(claude_models) == claude_models[1]

ContentRet == [t |-> "content", name |-> <<>>]

fallbackVars ==
  <<prog, models_to_try, runs, clock, files, calls, pc, idx, path, timestamp,
    result, key, i, success, ret, log, invoked, written, returned,
    started, named, targets>>

InitCatalog ==
  /\ FallbackIdle
  /\ SaveIdle
  /\ GalleryIdle
  /\ script \in {"claude_gateway", "setup"}
  /\ requested \in (IF script = "claude_gateway" THEN {NoModel} \cup BackendIds
                     ELSE {NoModel})
  /\ model_id = requested
  /\ stage = "idle"
  /\ catalog = <<>>
  /\ found = <<>>
  /\ posted = <<>>
  /\ response = Unset

\* call_claude_model(prompt, model_id) is entered: with no model_id the
\* listing request of get_available_models is in flight, otherwise the
\* chat completion request is
CallClaudeModel ==
  /\ script = "claude_gateway"
  /\ stage = "idle"
  /\ IF model_id = NoModel
       THEN /\ stage' = "listing"
            /\ UNCHANGED posted
       ELSE /\ stage' = "posting"
            /\ posted' = Append(posted, model_id)
  /\ UNCHANGED <<script, requested, model_id, catalog, found, response>>
  /\ UNCHANGED <<fallbackVars, saveVars, galleryVars>>

\* get_available_models() returns; the Claude models are picked; the
\* request goes to the first of them, or None is returned
ModelsListed ==
  /\ script = "claude_gateway"
  /\ stage = "listing"
  /\ \E a \in ListingAnswers(script) :
       LET claude_models == ClaudeModels(GetAvailableModels(a)) IN
         /\ catalog' = Append(catalog, a)
         /\ found' = claude_models
         /\ IF claude_models # <<>>
              THEN /\ model_id' = FirstOf(claude_models)
                   /\ posted' = Append(posted, FirstOf(claude_models))
                   /\ stage' = "posting"
                   /\ UNCHANGED response
              ELSE /\ response' = NoneRet
                   /\ stage' = "done"
                   /\ UNCHANGED <<model_id, posted>>
  /\ UNCHANGED <<script, requested>>
  /\ UNCHANGED <<fallbackVars, saveVars, galleryVars>>

\* the chat completion request ends: the content of a well-formed 200
\* answer is returned, None after anything else
Completion ==
  /\ script = "claude_gateway"
  /\ stage = "posting"
  /\ \E kind \in {"raises", "status", "malformed", "content"} :
       response' = IF kind = "content" THEN ContentRet ELSE NoneRet
  /\ stage' = "done"
  /\ UNCHANGED <<script, requested, model_id, catalog, found, posted>>
  /\ UNCHANGED <<fallbackVars, saveVars, galleryVars>>

\* generator.list_available_models()
ListAvailableModels ==
  /\ script = "setup"
  /\ stage = "idle"
  /\ \E a \in ListingAnswers(script) :
       /\ catalog' = Append(catalog, a)
       /\ found' = ImageModels(a)
  /\ stage' = "done"
  /\ UNCHANGED <<script, requested, model_id, posted, response>>
  /\ UNCHANGED <<fallbackVars, saveVars, galleryVars>>

NextCatalog ==
  \/ CallClaudeModel
  \/ ModelsListed
  \/ Completion
  \/ ListAvailableModels

SpecCatalog == InitCatalog /\ [][NextCatalog]_vars

(***************************************************************************)
(* The gallery consumers: get_image_info of image_gallery_server.py and    *)
(* index of image_viewer.py, applied to a file name of the working         *)
(* directory fs.                                                           *)
(***************************************************************************)
\* str.split(sep): the segments between sep tokens
RECURSIVE SplitAt(_, _)
SplitAt(s, sep) ==
  IF \A n \in 1..Len(s) : s[n] # sep
    THEN <<s>>
    ELSE LET c == CHOOSE n \in 1..Len(s) :
                    s[n] = sep /\ \A m \in 1..(n-1) : s[m] # sep
         IN <<SubSeq(s, 1, c - 1)>> \o SplitAt(SubSeq(s, c + 1, Len(s)), sep)

\* filename.replace('.png', '')
WithoutPng(s) == LET keep(tok) == tok # ".png" IN SelectSeq(s, keep)

\* `kw in filename`: some token of the name holds kw
Mentions(kw, name) ==
  \E n \in 1..Len(name) :
     kw \in (CASE name[n] \in {"stabilityai", "stability"} -> {"stability"}
              [] name[n] \in {"stable-diffusion-3-5-large", "stable-diffusion-xl-v1"}
                   -> {"stable"}
              [] name[n] = "amazon" -> {"amazon"}
              [] name[n] = "titan-image-generator-v1" -> {"titan"}
              [] OTHER -> {})

\* len(part) == n and part.isdigit()
IsDigits(part, n) ==
  /\ Len(part) = 1
  /\ \/ n = 8 /\ part[1] \in {"20250101"}
     \/ n = 6 /\ part[1] \in {"120000", "120001", "120002", "120003"}
     \/ n = 1 /\ part[1] \in {"0", "1", "2", "3"}

\* parts.index(part)
IndexOf(parts, part) ==
  CHOOSE n \in 1..Len(parts) : parts[n] = part /\ \A m \in 1..(n-1) : parts[m] # part

\* datetime.strptime(f"{date_part}_{time_part}", "%Y%m%d_%H%M%S")
\*   .strftime("%Y-%m-%d %H:%M:%S")
Reformat(date_part, time_part) ==
  << CASE date_part = "20250101" -> "2025-01-01",
     " ",
     CASE time_part = "120000" -> "12:00:00"
       [] time_part = "120001" -> "12:00:01"
       [] time_part = "120002" -> "12:00:02"
       [] time_part = "120003" -> "12:00:03" >>

NoInfo == [t |-> "none"]
UnknownTok == <<"Unknown">>

\* get_image_info(filename) of image_gallery_server.py
GetImageInfo(fs, filename) ==
  IF filename \notin DOMAIN fs THEN NoInfo                    \* os.stat raises
  ELSE
    LET parts == SplitAt(WithoutPng(filename), "_")
        model == IF Mentions("amazon", filename) THEN "Amazon Titan Image Generator"
                 ELSE IF Mentions("stability", filename) THEN "Stability AI SDXL"
                 ELSE "Unknown"
        dates == {n \in 1..Len(parts) : IsDigits(parts[n], 8)}
        created ==
          IF dates = {} THEN UnknownTok
          ELSE LET first == CHOOSE n \in dates : \A m \in dates : n <= m
                   at == IndexOf(parts, parts[first])
                   time_part == IF at + 1 <= Len(parts) THEN parts[at + 1] ELSE <<>>
               IN IF IsDigits(time_part, 6)
                    THEN Reformat(parts[first][1], time_part[1])
                    ELSE UnknownTok
    IN [t |-> "info", filename |-> filename, model |-> model, created |-> created]

\* the entry index() of image_viewer.py builds for a file
ViewerEntry(fs, filename) ==
  IF filename \notin DOMAIN fs THEN NoInfo                    \* os.path.getsize raises
  ELSE
    LET parts == SplitAt(filename, "_")
        model == IF Mentions("titan", filename) THEN "Amazon Titan Image Generator"
                 ELSE IF Mentions("stable", filename) THEN "Stability AI SDXL"
                 ELSE "Unknown"
        shown == IF Len(parts) >= 3
                   THEN parts[Len(parts) - 2] \o <<" ">> \o parts[Len(parts) - 1]
                   ELSE UnknownTok
    IN [t |-> "info", filename |-> filename, model |-> model, timestamp |-> shown]

(***************************************************************************)
(* The /generate operation of image_gallery_server.py.  Two requests are   *)
(* handled side by side: they carry the same prompt and different model    *)
(* values, and a generator they launch meets the same operating system     *)
(* and the same backends.  A prompt is a sequence of words and blanks.     *)
(***************************************************************************)
Prompts ==
  { <<>>,
    <<" ">>,
    <<"cat">>,
    <<"a", " ", "cat">>,
    <<" ", "a", " ", " ", "cat", " ">>,
    <<"a", " ", "cat", " ", "--list-models">>,
    <<"--setup-help">> }

\* the value of 'prompt' in the posted JSON: missing, null, a number, a text
PromptValues == {Absent, JNull, JNum} \cup {JStr(p) : p \in Prompts}

\* the value of 'model' in the posted JSON
ModelValues == {Absent, JStr(Titan), JStr(SDXL), JStr(<<"dall-e">>)}

\* what may happen to a launched generator: subprocess.run raises, the
\* run exceeds its 120 seconds, the generator gets an image, it gets none,
\* or it writes to stderr
RunOutcomes == {"oserror", "timeout", "success", "failed", "stderr"}

\* data.get(k, default)
Get(v, default) == IF v = Absent THEN default ELSE v

\* prompt.split(): the words between runs of blanks
SplitWords(text) == LET word(tok) == tok # " " IN SelectSeq(text, word)

\* a command line that hands the chosen model to the generator
Command_WithModel(text, chosen) ==
  <<"python3", "setup_stable_diffusion.py">> \o SplitWords(text)
    \o <<"--model">> \o chosen.s

\* cmd = ['python3', 'setup_stable_diffusion.py'] + prompt.split()
Command(text, chosen) == <<"python3", "setup_stable_diffusion.py">> \o SplitWords(text)

\* the providers main() of setup_stable_diffusion.py walks for these
\* arguments: none after --setup-help or --list-models, else the list of
\* generate_image
GeneratorPlan(argv) ==
  IF \E n \in 1..Len(argv) : argv[n] \in {"--setup-help", "--list-models"}
    THEN <<>>
    ELSE SetupModels

Failure(text) == [success |-> FALSE, text |-> text]
Generated == [success |-> TRUE, text |-> "Image generated successfully"]

\* generate_image() of image_gallery_server.py for the posted JSON d,
\* where a launched generator ends as oc says
Generate(d, oc) ==
  LET text == Get(d.prompt, JStr(<<>>))
      chosen == Get(d.model, JStr(Titan))
  IN IF ~Truthy(text)
       THEN [cmd |-> NotRun, plan |-> <<>>, reply |-> Failure("Prompt is required")]
     ELSE IF text.t # "str"                       \* prompt.split(): AttributeError
       THEN [cmd |-> NotRun, plan |-> <<>>, reply |-> Failure("str(e)")]
     ELSE
       LET line == Command(text.s, chosen)
           plan == IF oc = "oserror" THEN <<>>
                   ELSE GeneratorPlan(SubSeq(line, 3, Len(line)))
       IN [cmd |-> line,
           plan |-> plan,
           reply |-> CASE oc = "oserror" -> Failure("str(e)")
                       [] oc = "timeout" -> Failure("Image generation timed out")
                       [] oc = "stderr" -> Failure("result.stderr")
                       [] oc = "success" /\ plan # <<>> -> Generated
                       [] OTHER -> Failure("result.stdout")]

InitGallery ==
  /\ FallbackIdle
  /\ SaveIdle
  /\ CatalogIdle
  /\ form \in [1..2 -> [prompt : PromptValues, model : ModelValues]]
  /\ form[1].prompt = form[2].prompt
  /\ form[1].model # form[2].model
  /\ outcome \in RunOutcomes
  /\ cmd = [tw \in 1..2 |-> NotRun]
  /\ attempted = [tw \in 1..2 |-> <<>>]
  /\ reply = [tw \in 1..2 |-> Unset]

\* POST /generate: one of the two requests is handled
GenerateImage ==
  /\ \E tw \in 1..2 :
       /\ reply[tw] = Unset
       /\ LET done == Generate(form[tw], outcome) IN
            /\ cmd' = [cmd EXCEPT ![tw] = done.cmd]
            /\ attempted' = [attempted EXCEPT ![tw] = done.plan]
            /\ reply' = [reply EXCEPT ![tw] = done.reply]
  /\ UNCHANGED <<form, outcome>>
  /\ UNCHANGED <<fallbackVars, saveVars, catalogVars>>

NextGallery == GenerateImage

SpecGallery == InitGallery /\ [][NextGallery]_vars

(***************************************************************************)
(* Vocabulary of the properties.                                           *)
(***************************************************************************)
\* the transport calls the configured list stands for, in order: one per
\* model in setup_stable_diffusion, gateway then direct per model in
\* stable_diffusion_image_generator
Plan ==
  IF prog = "setup"
    THEN [n \in 1..Len(models_to_try) |-> [model |-> models_to_try[n], path |-> "sdk"]]
    ELSE [n \in 1..(2 * Len(models_to_try)) |->
            [model |-> models_to_try[(n + 1) \div 2],
             path |-> IF n % 2 = 1 THEN "gateway" ELSE "direct"]]

\* the transport calls made so far
Made == [n \in 1..Len(invoked) |-> [model |-> invoked[n].model, path |-> invoked[n].path]]

Ended == pc \in {"done", "raised"}
Succeeded == IF prog = "setup" THEN ret.t = "file" ELSE success

(***************************************************************************)
(* C1.  Fallback stops at first success: once an attempt has saved an      *)
(* image, no further transport call is made in that generate call.         *)
(***************************************************************************)
C1_StopsAtFirstSuccess == [][written # <<>> => invoked' = invoked]_vars

\* an image was saved by an attempt that is not the last of the plan
C1_Witness ==
  /\ written # <<>>
  /\ written[1].at < Len(Plan)
  /\ pc = "done"

(***************************************************************************)
(* C2.  Providers are tried strictly in list order: the calls made are a   *)
(* prefix of the plan, and every call but the latest has completed         *)
(* without a saved image.                                                  *)
(***************************************************************************)
C2_ListOrder ==
  /\ Len(Made) <= Len(Plan)
  /\ \A n \in 1..Len(Made) : Made[n] = Plan[n]
  /\ \A n \in 1..(Len(invoked) - 1) :
       /\ invoked[n].got # "inflight"
       /\ \A m \in 1..Len(written) : written[m].at # n

\* the second model of a two-model list has been reached on both paths
C2_Witness ==
  /\ prog = "gen"
  /\ Len(models_to_try) = 2
  /\ Len(invoked) = 4
  /\ models_to_try[1] # models_to_try[2]

(***************************************************************************)
(* What a call exposes about its attempts: the lines it prints.  Each      *)
(* transport call is announced by a line naming the model; the lines up    *)
(* to the next announcement are what that attempt printed.                 *)
(***************************************************************************)
Announcements == {"generating", "gateway_attempt", "direct_attempt"}
Reasons == {"transport_error", "status_error", "gateway_error", "direct_error",
            "save_error"}

Starts == {p \in 1..Len(log) : log[p].e \in Announcements}
StartOf(n) == CHOOSE p \in Starts : Cardinality({q \in Starts : q <= p}) = n
EndOf(n) == IF n < Cardinality(Starts) THEN StartOf(n + 1) - 1 ELSE Len(log)
Segment(n) == {log[p] : p \in (StartOf(n) + 1)..EndOf(n)}
Kinds(n) == {l.e : l \in Segment(n)}

\* attempt n is over and control has left it in the ordinary way
Over(n) == n < Len(invoked) \/ pc = "done"

(***************************************************************************)
(* C3.  With N providers of which the first N-1 fail and the N-th          *)
(* succeeds, generate returns an artifact attributed to provider N with    *)
(* exactly N-1 failed attempts on record before it.  On finished calls:    *)
(* a call that has seen only failures does not end before provider N has   *)
(* had its turn, and a success of provider N is returned, attributed to    *)
(* it, after one announced, failed attempt per earlier provider.           *)
(***************************************************************************)
C3_LastProviderReached ==
  (Ended /\ written = <<>>) => Len(invoked) = Len(Plan)

C3_LastProviderReturned ==
  (Ended /\ written # <<>> /\ written[1].at = Len(Plan)) =>
     /\ Succeeded
     /\ Cardinality(Starts) = Len(Plan)
     /\ \A n \in 1..Len(Plan) :
          /\ log[StartOf(n)].a = Plan[n].model
          /\ "saved" \in Kinds(n) <=> n = Len(Plan)
     /\ prog = "setup" =>
          /\ ret.name = written[1].name
          /\ \E j \in 0..3 :
               ret.name = SetupFilename(models_to_try[Len(models_to_try)], timestamp, j)
     /\ prog = "gen" =>
          Line("success", models_to_try[Len(models_to_try)]) \in Segment(Len(Plan))

C3_Claim == C3_LastProviderReached /\ C3_LastProviderReturned

(***************************************************************************)
(* C4.  When every provider has been attempted without success, what       *)
(* generate hands back names, per attempted provider and in attempt        *)
(* order, the provider and the reason of its failure.                      *)
(***************************************************************************)
C4_Claim ==
  (pc = "done" /\ ~Succeeded) =>
     /\ Cardinality(Starts) = Len(invoked)
     /\ \A n \in 1..Len(invoked) :
          /\ log[StartOf(n)].a = invoked[n].model
          /\ Kinds(n) \cap Reasons # {}

Payloads(k, r) ==
  IF r.t # "obj" \/ k \notin DOMAIN r.f \/ r.f[k].t # "list" THEN {}
  ELSE IF k = "images" THEN {r.f[k].xs[n] : n \in 1..Len(r.f[k].xs)}
  ELSE {r.f[k].xs[n].f[FieldOf(k)] :
          n \in {m \in 1..Len(r.f[k].xs) :
                   /\ r.f[k].xs[m].t = "obj"
                   /\ FieldOf(k) \in DOMAIN r.f[k].xs[m].f}}

C6_NoEmptySuccess ==
  Succeeded =>
     /\ written # <<>>
     /\ Payloads(key, result) # {}
     /\ LET w == written[Len(written)] IN
          /\ w.name \in DOMAIN files
          /\ prog = "setup" => ret.name = w.name
          /\ \E v \in Payloads(key, result) :
               /\ v.t = "str"
               /\ Decoded(v).ok
               /\ files[w.name] = Decoded(v).bytes

\* success after an earlier provider's response held no payload at all
C6_Witness ==
  /\ Succeeded
  /\ written[1].at = 2
  /\ invoked[1].got = "body"
  /\ Kinds(1) \cap {"saved", "save_error"} = {}

(***************************************************************************)
(* C7.  A provider whose transport call succeeded but whose body yields    *)
(* no blob is on record with a failure reason of its own, and a provider   *)
(* whose transport call failed is on record with the transport error.      *)
(***************************************************************************)
C7_Claim ==
  \A n \in 1..Len(invoked) :
     /\ (Over(n) /\ invoked[n].got = "body" /\ Kinds(n) \cap {"saved", "save_error"} = {})
          => Kinds(n) \cap Reasons # {}
     /\ (Over(n) /\ invoked[n].got \in {"raises", "status"})
          => Kinds(n) \cap (Reasons \ {"save_error"}) # {}

(***************************************************************************)
(* C8.  No per-attempt fault escapes the fallback loop: whatever the       *)
(* transport answers, generate does not end with an unhandled exception.   *)
(***************************************************************************)
C8_Claim == pc # "raised"

(***************************************************************************)
(* C9.  A decode or write failure while persisting the payloads of         *)
(* provider k is fatal for that attempt only: when the call has ended,     *)
(* every attempt that failed to save and has a successor in the plan was   *)
(* followed by that successor, and a saved image is reported as success.   *)
(***************************************************************************)
C9_Claim ==
  Ended =>
     /\ \A n \in 1..Len(invoked) :
          ("save_error" \in Kinds(n) /\ "saved" \notin Kinds(n) /\ n < Len(Plan))
             => n < Len(invoked)
     /\ written # <<>> => Succeeded

(***************************************************************************)
(* C10.  Two sequential successful generate calls with the same request    *)
(* and provider list produce two distinct file paths, and afterwards both  *)
(* files exist, each with the content its call wrote.                      *)
(***************************************************************************)
C10_Claim ==
  (Len(returned) = 1 /\ returned[1].written # <<>> /\ written # <<>>) =>
     LET first == returned[1].written[1]
         second == written[1]
     IN /\ first.name # second.name
        /\ first.name \in DOMAIN files
        /\ second.name \in DOMAIN files
        /\ files[first.name] = first.data
        /\ files[second.name] = second.data

(***************************************************************************)
(* C11.  When the response of the succeeding provider carries k >= 2       *)
(* payloads, all of which decode, the call persists all k of them and      *)
(* returns the path of the first.                                          *)
(***************************************************************************)
\* the list positions (enumerate indices) of the payloads response r
\* carries under key k
PayloadIndices(k, r) ==
  IF r.t # "obj" \/ k \notin DOMAIN r.f \/ r.f[k].t # "list" THEN {}
  ELSE {n \in 0..(Len(r.f[k].xs) - 1) :
          \/ k = "images"
          \/ /\ r.f[k].xs[n + 1].t = "obj"
             /\ FieldOf(k) \in DOMAIN r.f[k].xs[n + 1].f}

\* the payload at list position n
PayloadAt(k, r, n) ==
  IF k = "images" THEN r.f[k].xs[n + 1] ELSE r.f[k].xs[n + 1].f[FieldOf(k)]

C11_Claim ==
  (/\ Succeeded
   /\ Cardinality(PayloadIndices(key, result)) >= 2
   /\ \A n \in PayloadIndices(key, result) : Decoded(PayloadAt(key, result, n)).ok)
  => /\ Len(written) = Cardinality(PayloadIndices(key, result))
     /\ \A m \in 1..Len(written) :
          /\ written[m].at = Len(invoked)
          /\ written[m].name \in DOMAIN files
     /\ \A m1, m2 \in 1..Len(written) :
          written[m1].name = written[m2].name => m1 = m2
     /\ prog = "setup" => ret.name = written[1].name

(***************************************************************************)
(* C12.  Within one call no two saves, successful or not, target the same  *)
(* path: a file name handed to save_image_from_base64 has not been handed  *)
(* to it before in the same call, neither for another payload index nor    *)
(* for another provider.                                                   *)
(***************************************************************************)
C12_Claim ==
  [][(Len(named') = Len(named) + 1 /\ named'[Len(named')].saving)
       => named'[Len(named')].name \notin targets]_vars

(***************************************************************************)
(* C13.  Every file name handed to a save has the form                     *)
(* generated_image_{sanitized_provider}_{YYYYMMDD}_{HHMMSS}_{index}.png,   *)
(* sanitized_provider being the identifier of the provider whose response  *)
(* holds the payload, with every ':' and '.' replaced by '_'.              *)
(***************************************************************************)
Sanitized(id) ==
  [n \in 1..Len(id) |-> IF id[n] \in {":", "."} THEN "_" ELSE id[n]]

Dates == {"20250101"}
Times == {"120000", "120001", "120002", "120003"}
Indices == {"0", "1", "2", "3"}

ArtifactNames(id) ==
  {<<"generated", "_", "image", "_">> \o Sanitized(id)
      \o <<"_", d, "_", t, "_", n, ".png">> :
        d \in Dates, t \in Times, n \in Indices}

C13_Claim ==
  \A n \in 1..Len(named) :
     named[n].saving => named[n].name \in ArtifactNames(invoked[named[n].at].model)

(***************************************************************************)
(* C14.  All file names computed for the payloads of one response embed    *)
(* the same timestamp, the one of the moment the call was entered,         *)
(* whatever the clock has done since.                                      *)
(***************************************************************************)
C14_Claim ==
  \A n \in 1..Len(named) :
     /\ named[n].ts = named[1].ts
     /\ named[n].ts = Strftime(started)
     /\ \E j \in Indices :
          SubSeq(named[n].name, Len(named[n].name) - 5, Len(named[n].name))
            = named[n].ts \o <<"_", j, ".png">>

(***************************************************************************)
(* C15.  Saving "data:image/png;base64," + b does what saving b alone      *)
(* does, and for any text that starts with a data-URL header and holds a   *)
(* comma the decoder is given everything after the first comma, nothing    *)
(* more removed: the value returned and the bytes written are those of     *)
(* that text decoded.                                                      *)
(***************************************************************************)
HasHeader(s) == s # <<>> /\ Head(s) = HeaderTok
HasComma(s) == \E n \in 1..Len(s) : s[n] = ","
AfterFirstComma(s) ==
  LET c == CHOOSE n \in 1..Len(s) : s[n] = "," /\ \A m \in 1..(n - 1) : s[m] # ","
  IN SubSeq(s, c + 1, Len(s))

C15_Claim ==
  (saved # "unset" /\ (HasHeader(base64_data) => HasComma(base64_data))) =>
     LET d == B64Decode(IF HasHeader(base64_data) THEN AfterFirstComma(base64_data)
                        ELSE base64_data)
     IN /\ saved = "True" <=> (d.ok /\ disk = "ok")
        /\ (d.ok /\ disk = "ok") => files = SaveName :> d.bytes
        /\ (d.ok /\ disk = "write_fails") => files = SaveName :> <<>>
        /\ (~d.ok \/ disk = "open_fails") => files = <<>>

(***************************************************************************)
(* C16.  Model discovery returns exactly the listed identifiers whose      *)
(* lower-cased form contains the keyword, in the order of the listing;     *)
(* when none matches or the listing fails it returns the empty list and    *)
(* the call goes on in the ordinary way.                                   *)
(***************************************************************************)
KeywordsOf(sc) == IF sc = "claude_gateway" THEN {"claude"} ELSE ImageKeywords

\* the positions of listing a whose identifier matches
MatchAt(sc, a) ==
  {n \in 1..Len(a.data) : \E kw \in KeywordsOf(sc) : Contains(kw, Lower(a.data[n]))}

\* the k-th smallest element of a set of numbers
Nth(S, k) == CHOOSE n \in S : Cardinality({m \in S : m <= n}) = k

C16_Discovery ==
  catalog # <<>> =>
     LET a == catalog[1] IN
       /\ stage \in {"posting", "done"}
       /\ a.kind # "body" => found = <<>>
       /\ Len(found) = Cardinality(MatchAt(script, a))
       /\ \A k \in 1..Len(found) : found[k] = a.data[Nth(MatchAt(script, a), k)]

\* a listing of two models: the first does not match, the second matches
\* only when lower-cased
C16_Witness ==
  /\ catalog # <<>>
  /\ Len(catalog[1].data) = 2
  /\ Len(found) = 1
  /\ found[1] = catalog[1].data[2]
  /\ Lower(found[1]) # found[1]

(***************************************************************************)
(* C17.  call_claude_model queries the catalog if and only if the caller   *)
(* gave no model id; when it is queried and no model matches, no chat      *)
(* completion request is sent and None is returned; when one matches, the  *)
(* request goes to the first match in the order of the listing.            *)
(***************************************************************************)
C17_Claim ==
  script = "claude_gateway" =>
     /\ Len(catalog) <= 1
     /\ (stage = "listing" \/ catalog # <<>>) => requested = NoModel
     /\ (stage \in {"posting", "done"} /\ requested = NoModel) => catalog # <<>>
     /\ (stage # "idle" /\ requested # NoModel) => posted = <<requested>>
     /\ stage = "listing" => posted = <<>>
     /\ catalog # <<>> =>
          LET M == MatchAt(script, catalog[1]) IN
            /\ M = {} => (posted = <<>> /\ stage = "done" /\ response = NoneRet)
            /\ M # {} => posted = <<catalog[1].data[Nth(M, 1)]>>

\* two different models match and the request has been answered
C17_Witness ==
  /\ script = "claude_gateway"
  /\ catalog # <<>>
  /\ Len(found) = 2
  /\ found[1] # found[2]
  /\ stage = "done"
  /\ response = ContentRet

(***************************************************************************)
(* C18.  At most one transport call is in flight at any moment of a call,  *)
(* and the next one starts only when the one before has returned or        *)
(* raised and the payload list of its response, if any, has been walked    *)
(* to its end.                                                             *)
(***************************************************************************)
C18_OneInFlight ==
  /\ [](\A n \in 1..Len(invoked) :
          invoked[n].got = "inflight" => (n = Len(invoked) /\ pc = "waiting"))
  /\ [][Len(invoked') > Len(invoked) =>
          /\ Len(invoked') = Len(invoked) + 1
          /\ \A n \in 1..Len(invoked) : invoked'[n].got # "inflight"
          /\ pc \in {"for", "waiting", "loop"}
          /\ pc = "loop" => i >= Len(Enumerate(result.f[key]))]_vars

\* the second transport call is in flight after the payloads of the first
\* response were tried and none could be saved
C18_Witness ==
  /\ Len(invoked) = 2
  /\ invoked[2].got = "inflight"
  /\ invoked[1].got = "body"
  /\ "save_error" \in Kinds(1)

(***************************************************************************)
(* C19.  For every file generate_image has written for a provider of its   *)
(* list, both gallery consumers recover from the name alone the date and   *)
(* the time that were embedded in it, and show a model label other than    *)
(* "Unknown".                                                              *)
(***************************************************************************)
C19_GalleryReadsName ==
  prog = "setup" =>
     \A m \in 1..Len(written) :
        LET info == GetImageInfo(files, written[m].name)
            entry == ViewerEntry(files, written[m].name)
        IN /\ info.t = "info"
           /\ info.created = Reformat(timestamp[1], timestamp[3])
           /\ info.model # "Unknown"
           /\ entry.t = "info"
           /\ entry.timestamp = <<timestamp[1], " ", timestamp[3]>>
           /\ entry.model # "Unknown"

\* a file written for the model whose identifier holds a ':', after the
\* clock has moved on from the second the call was entered in
C19_Witness ==
  /\ prog = "setup"
  /\ written # <<>>
  /\ written[1].model = SDXL
  /\ written[1].name \in DOMAIN files
  /\ clock > started

(***************************************************************************)
(* C20.  For a response with an artifact list, exactly the artifacts that  *)
(* hold a base64 field are handed to the save, in list order, and the      *)
(* index in the file name of a payload is the position of its artifact in  *)
(* the list of the response, so that two payloads of one response never    *)
(* get the same index.                                                     *)
(***************************************************************************)
\* the list positions the payload loop is done with
Walked == IF pc = "done" THEN 0..i ELSE 0..(i - 1)

C20_ArtifactIndex ==
  (key = "artifacts" /\ pc \in {"loop", "done", "raised"}) =>
     /\ \A n \in 1..Len(named) :
          /\ named[n].saving
          /\ named[n].i \in PayloadIndices("artifacts", result)
          /\ named[n].name[Len(named[n].name) - 1] = <<"0", "1", "2", "3">>[named[n].i + 1]
          /\ named[n].name[Len(named[n].name)] = ".png"
     /\ \A n1, n2 \in 1..Len(named) : n1 < n2 => named[n1].i < named[n2].i
     /\ {named[n].i : n \in 1..Len(named)}
          = PayloadIndices("artifacts", result) \cap Walked

\* the first artifact holds no base64 field, the second does and was saved
C20_Witness ==
  /\ key = "artifacts"
  /\ pc = "done"
  /\ Len(named) = 1
  /\ named[1].i = 1
  /\ written # <<>>
  /\ written[1].name = named[1].name

(***************************************************************************)
(* C21.  Every generate call that was entered ends, and within one call    *)
(* no (model, transport path) pair is invoked twice: a call over N models  *)
(* makes at most N transport calls in setup_stable_diffusion and at most   *)
(* 2N, gateway then direct, in stable_diffusion_image_generator.           *)
(***************************************************************************)
Running == pc \in {"for", "waiting", "loop"}

C21_AtMostOnce ==
  /\ \A m, n \in 1..Len(invoked) :
       (invoked[m].model = invoked[n].model /\ invoked[m].path = invoked[n].path)
         => m = n
  /\ prog = "setup" => Len(invoked) <= Len(models_to_try)
  /\ prog = "gen" => Len(invoked) <= 2 * Len(models_to_try)

GatewayOver(n) == n < Len(invoked) \/ Ended

\* the attempt of transport call n saved an image
SavedBy(n) == \E w \in 1..Len(written) : written[w].at = n

\* the direct call for the model of gateway call n was made
DirectAfter(n) ==
  /\ n + 1 <= Len(invoked)
  /\ invoked[n + 1].path = "direct"
  /\ invoked[n + 1].model = invoked[n].model

C22_Claim ==
  prog = "gen" =>
     /\ \A n \in 1..Len(invoked) :
          invoked[n].path = "direct" =>
             /\ n > 1
             /\ invoked[n - 1].path = "gateway"
             /\ invoked[n - 1].model = invoked[n].model
     /\ \A n \in 1..Len(invoked) :
          (invoked[n].path = "gateway" /\ GatewayOver(n)) =>
             (DirectAfter(n) <=> ~SavedBy(n))
     /\ \A n \in 1..Len(invoked) : SavedBy(n) => n = Len(invoked)

(***************************************************************************)
(* C23.  A save that fails at the decoding of its text, or at a data-URL   *)
(* header without a comma, returns False and leaves the working directory  *)
(* as it was: no file is created, truncated or changed, the file already   *)
(* at the target path included.                                            *)
(***************************************************************************)
C23_FailedDecode ==
  [][(saved = "unset" /\ saved' # "unset") =>
        /\ ~Decoded(JStr(base64_data)).ok => (saved' = "False" /\ files' = files)
        /\ (HasHeader(base64_data) /\ ~HasComma(base64_data)) =>
              (saved' = "False" /\ files' = files)
        /\ (saved' = "False" /\ disk' = "ok") => files' = files]_vars

\* a header without a comma was handed to the save while a file of an
\* earlier run was at the target path: False, and the file is as it was
C23_Witness ==
  /\ HasHeader(base64_data)
  /\ ~HasComma(base64_data)
  /\ saved = "False"
  /\ disk = "ok"
  /\ files = WriteFile(<<>>, SaveName, OldBytes)

(***************************************************************************)
(* C24.  The model value of a /generate request has no influence: two      *)
(* requests with the same prompt and different model values launch the     *)
(* same command, have the generator walk the same providers and get the    *)
(* same JSON result; and a request with an empty prompt gets the error     *)
(* 'Prompt is required' and launches nothing.                              *)
(***************************************************************************)
EmptyPrompt(v) == v = Absent \/ v = JStr(<<>>)

C24_ModelIgnored ==
  /\ (reply[1] # Unset /\ reply[2] # Unset) =>
        /\ cmd[1] = cmd[2]
        /\ attempted[1] = attempted[2]
        /\ reply[1] = reply[2]
  /\ \A tw \in 1..2 :
        (reply[tw] # Unset /\ EmptyPrompt(form[tw].prompt)) =>
           /\ reply[tw] = [success |-> FALSE, text |-> "Prompt is required"]
           /\ cmd[tw] = NotRun
           /\ attempted[tw] = <<>>

\* both requests were answered after launching a generator that walked
\* the provider list: one asked for the Titan model, the other for SDXL
C24_Witness ==
  /\ form[1].model = JStr(Titan)
  /\ form[2].model = JStr(SDXL)
  /\ reply[1] # Unset
  /\ reply[2] = Generated
  /\ cmd[2] # NotRun
  /\ attempted[2] = SetupModels

====
